---- MODULE Spec2Model ----
\* A model of src/app.py: the rate-gated fetch-and-extract pipeline of the
\* flight scraper (enforce_rate_limit, build_search_url, extract_flight_data,
\* scrape_flights) as a state machine over a discrete clock of whole seconds.
EXTENDS Integers, Sequences, FiniteSets, TLC

\* ---------------------------------------------------------------- constants
\* app.py:35-37 and the literal 3600 of app.py:48 and app.py:52.
MIN_WAIT_TIME == 5
MAX_WAIT_TIME == 10
MAX_REQUESTS_PER_HOUR == 20
WINDOW == 3600

\* ------------------------------------------------------------------- bounds
\* Request threads that may run at the same time (the Flask server is threaded).
NumCallers == 2
\* Calls of enforce_rate_limit() one caller makes one after another.
MaxCalls == 22
\* How often a run may leave the fastest schedule (a maximal jitter, a pause).
MaxSlow == 2
\* Result blocks on one fetched page.
MaxBlocks == 2

Callers == 1..NumCallers
\* The single caller of the sequential specifications.
Sequential == {1}

VARIABLES
    now,                 \* time.time(), in whole seconds
    request_timestamps,  \* the module-level list (app.py:40)
    pc,                  \* each caller's position
    current_time,        \* enforce_rate_limit's local, per caller (app.py:47)
    kept,                \* the list the comprehension built, before it is stored
    wake,                \* when the caller's time.sleep() may return
    stamp,               \* time.time() read for the append (app.py:62)
    calls,               \* enforce_rate_limit() calls each caller has started
    slow,                \* deviations from the fastest schedule so far
    arrivals,            \* history: callers in the order they entered enforce_rate_limit
    served,              \* history: callers in the order their timestamp was appended
    recorded,            \* history: every timestamp ever appended
    req,                 \* the arguments of scrape_flights
    entered,             \* when scrape_flights was entered
    url,                 \* what build_search_url returned
    fetches,             \* requests.get calls issued by the search
    fetched_at,          \* when requests.get was issued
    response,            \* what requests.get produced
    page,                \* the containers of the fetched page
    extraction,          \* extract_flight_data: "none", "returned" or "raised"
    flights,             \* what extract_flight_data returned
    log,                 \* what extract_flight_data logged
    result,              \* what scrape_flights returned
    markup,              \* one container, as the markup its selectors see
    located              \* the fields extract_flight_data finds in it

paceVars == <<now, request_timestamps, pc, current_time, kept, wake, stamp,
              calls, slow, arrivals, served, recorded>>
searchVars == <<req, entered, url, fetches, fetched_at, response, page,
                extraction, flights, log, result>>
locateVars == <<markup, located>>
vars == <<paceVars, searchVars, locateVars>>

\* ------------------------------------------------------------ Python values
\* A value that is None or a str; a str is a sequence of tokens, "" the empty one.
None == [isNone |-> TRUE, text |-> <<>>]
Str(tokens) == [isNone |-> FALSE, text |-> tokens]
\* Python truthiness of such a value: None and "" are falsy.
Truthy(v) == ~v.isNone /\ v.text # <<>>
\* An int, or a str where an int is expected.
PyInt(n) == [type |-> "int", val |-> n]
PyStr(n) == [type |-> "str", val |-> n]

\* ------------------------------------------------------- enforce_rate_limit
\* app.py:48: [ts for ts in request_timestamps if current_time - ts < 3600]
Prune(ts, ct) == SelectSeq(ts, LAMBDA x : ct - x < WINDOW)

\* The limit test with > in place of >=.
QuotaReachedStrict(ts) == Len(ts) > MAX_REQUESTS_PER_HOUR
\* app.py:51: len(request_timestamps) >= MAX_REQUESTS_PER_HOUR
QuotaReached(ts) == Len(ts) >= MAX_REQUESTS_PER_HOUR

\* app.py:52: 3600 - (current_time - request_timestamps[0]) + 1
SleepTime(ct, oldest) == WINDOW - (ct - oldest) + 1

\* The delay drawn from 0 instead of MIN_WAIT_TIME.
JitterFromZero == {0, MAX_WAIT_TIME}
\* app.py:57: random.uniform(MIN_WAIT_TIME, MAX_WAIT_TIME), at its two ends
JitterChoices == {MIN_WAIT_TIME, MAX_WAIT_TIME}

\* The list n back-to-back calls with the minimum jitter leave, from time 0.
BackToBack(n) == [i \in 1..n |-> i * MIN_WAIT_TIME]

Sleeping(t) == pc[t] \in {"erl_quota_sleep", "erl_jitter_sleep"}

\* A caller enters enforce_rate_limit() (app.py:42), at most `limit` times.
Call(t, limit) ==
    /\ pc[t] = "idle"
    /\ calls[t] < limit
    /\ pc' = [pc EXCEPT ![t] = "erl_clock"]
    /\ calls' = [calls EXCEPT ![t] = @ + 1]
    /\ arrivals' = Append(arrivals, t)
    /\ UNCHANGED <<now, request_timestamps, current_time, kept, wake, stamp,
                   slow, served, recorded, searchVars, locateVars>>

\* app.py:47: current_time = time.time()
ReadClock(t) ==
    /\ pc[t] = "erl_clock"
    /\ current_time' = [current_time EXCEPT ![t] = now]
    /\ pc' = [pc EXCEPT ![t] = "erl_prune"]
    /\ UNCHANGED <<now, request_timestamps, kept, wake, stamp, calls, slow,
                   arrivals, served, recorded, searchVars, locateVars>>

\* app.py:48, the comprehension: it reads the global list and builds a new one.
PruneRead(t) ==
    /\ pc[t] = "erl_prune"
    /\ kept' = [kept EXCEPT ![t] = Prune(request_timestamps, current_time[t])]
    /\ pc' = [pc EXCEPT ![t] = "erl_store"]
    /\ UNCHANGED <<now, request_timestamps, current_time, wake, stamp, calls,
                   slow, arrivals, served, recorded, searchVars, locateVars>>

\* app.py:48, the assignment: the global name is rebound to the new list.
PruneStore(t) ==
    /\ pc[t] = "erl_store"
    /\ request_timestamps' = kept[t]
    /\ kept' = [kept EXCEPT ![t] = <<>>]
    /\ pc' = [pc EXCEPT ![t] = "erl_check"]
    /\ UNCHANGED <<now, current_time, wake, stamp, calls, slow, arrivals,
                   served, recorded, searchVars, locateVars>>

\* app.py:51: the hourly limit is tested on the global list.
CheckQuota(t) ==
    /\ pc[t] = "erl_check"
    /\ pc' = [pc EXCEPT ![t] =
                IF QuotaReached(request_timestamps) THEN "erl_quota" ELSE "erl_jitter"]
    /\ UNCHANGED <<now, request_timestamps, current_time, kept, wake, stamp,
                   calls, slow, arrivals, served, recorded, searchVars, locateVars>>

\* app.py:52-54: the global list is read again for its first entry, then
\* time.sleep(sleep_time). An empty list raises IndexError and a negative
\* sleep_time raises ValueError; either leaves enforce_rate_limit as an exception.
QuotaSleep(t) ==
    /\ pc[t] = "erl_quota"
    /\ IF request_timestamps = <<>>
         THEN /\ pc' = [pc EXCEPT ![t] = "raised"]
              /\ wake' = wake
         ELSE LET sleep_time == SleepTime(current_time[t], request_timestamps[1])
              IN  IF sleep_time < 0
                    THEN /\ pc' = [pc EXCEPT ![t] = "raised"]
                         /\ wake' = wake
                    ELSE /\ pc' = [pc EXCEPT ![t] = "erl_quota_sleep"]
                         /\ wake' = [wake EXCEPT ![t] = now + sleep_time]
    /\ UNCHANGED <<now, request_timestamps, current_time, kept, stamp, calls,
                   slow, arrivals, served, recorded, searchVars, locateVars>>

\* app.py:54: time.sleep(sleep_time) returns, not before the time has passed.
WakeQuota(t) ==
    /\ pc[t] = "erl_quota_sleep"
    /\ now >= wake[t]
    /\ pc' = [pc EXCEPT ![t] = "erl_jitter"]
    /\ UNCHANGED <<now, request_timestamps, current_time, kept, wake, stamp,
                   calls, slow, arrivals, served, recorded, searchVars, locateVars>>

\* app.py:57-59: the random delay is drawn and time.sleep(sleep_duration) starts.
Jitter(t) ==
    /\ pc[t] = "erl_jitter"
    /\ \E d \in JitterChoices :
        /\ d > MIN_WAIT_TIME => slow < MaxSlow
        /\ slow' = IF d > MIN_WAIT_TIME THEN slow + 1 ELSE slow
        /\ wake' = [wake EXCEPT ![t] = now + d]
    /\ pc' = [pc EXCEPT ![t] = "erl_jitter_sleep"]
    /\ UNCHANGED <<now, request_timestamps, current_time, kept, stamp, calls,
                   arrivals, served, recorded, searchVars, locateVars>>

\* app.py:59: time.sleep(sleep_duration) returns.
WakeJitter(t) ==
    /\ pc[t] = "erl_jitter_sleep"
    /\ now >= wake[t]
    /\ pc' = [pc EXCEPT ![t] = "erl_stamp"]
    /\ UNCHANGED <<now, request_timestamps, current_time, kept, wake, stamp,
                   calls, slow, arrivals, served, recorded, searchVars, locateVars>>

\* app.py:62, the argument: time.time() is read.
Stamp(t) ==
    /\ pc[t] = "erl_stamp"
    /\ stamp' = [stamp EXCEPT ![t] = now]
    /\ pc' = [pc EXCEPT ![t] = "erl_append"]
    /\ UNCHANGED <<now, request_timestamps, current_time, kept, wake, calls,
                   slow, arrivals, served, recorded, searchVars, locateVars>>

\* app.py:62, the call: the timestamp is appended to the global list, and
\* enforce_rate_limit returns.
AppendStamp(t) ==
    /\ pc[t] = "erl_append"
    /\ request_timestamps' = Append(request_timestamps, stamp[t])
    /\ recorded' = Append(recorded, stamp[t])
    /\ served' = Append(served, t)
    /\ pc' = [pc EXCEPT ![t] = "erl_return"]
    /\ UNCHANGED <<now, current_time, kept, wake, stamp, calls, slow,
                   arrivals, searchVars, locateVars>>

\* The caller of enforce_rate_limit() gets control back and may call again.
Return(t) ==
    /\ pc[t] = "erl_return"
    /\ pc' = [pc EXCEPT ![t] = "idle"]
    /\ UNCHANGED <<now, request_timestamps, current_time, kept, wake, stamp,
                   calls, slow, arrivals, served, recorded, searchVars, locateVars>>

\* A caller between two statements, neither asleep nor outside a call. A
\* statement takes no whole second of the clock.
Running(t) ==
    pc[t] \notin {"idle", "erl_quota_sleep", "erl_jitter_sleep", "erl_return",
                  "raised", "done", "failed"}

\* Time passes, while nobody runs, until some sleeping caller's time.sleep()
\* may return.
Advance ==
    /\ \A t \in Callers : ~Running(t)
    /\ \E t \in Callers :
        /\ Sleeping(t)
        /\ wake[t] > now
        /\ now' = wake[t]
    /\ UNCHANGED <<request_timestamps, pc, current_time, kept, wake, stamp,
                   calls, slow, arrivals, served, recorded, searchVars, locateVars>>

\* Nobody calls for a whole window: every caller is between calls.
Pause ==
    /\ \A t \in Callers : pc[t] = "idle"
    /\ slow < MaxSlow
    /\ slow' = slow + 1
    /\ now' = now + WINDOW
    /\ UNCHANGED <<request_timestamps, pc, current_time, kept, wake, stamp,
                   calls, arrivals, served, recorded, searchVars, locateVars>>

\* ------------------------------------------------------------------ states
NoResult == [kind |-> "none"]
NoResponse == [kind |-> "none", status |-> 0]
NoRequest == [origin |-> None, destination |-> None, date |-> None,
              return_date |-> None, adults |-> PyInt(0)]

\* No container is under extraction, and no field has been looked for.
NoMarkup ==
    [price_label |-> "unset", airline_el |-> "unset", logo_alt |-> "unset",
     seg_dep |-> "unset", seg_arr |-> "unset", span_times |-> "unset",
     duration_el |-> "unset", duration_text |-> "unset",
     stops_el |-> "unset", stops_text |-> "unset"]
NotLocated ==
    [fault |-> FALSE, price |-> None, airline |-> None, departure_time |-> None,
     arrival_time |-> None, duration |-> None, stops |-> None]

\* The state at process start with `n` earlier back-to-back requests behind it.
InitWith(n) ==
    /\ now = n * MIN_WAIT_TIME
    /\ request_timestamps = BackToBack(n)
    /\ recorded = BackToBack(n)
    /\ pc = [t \in Callers |-> "idle"]
    /\ current_time = [t \in Callers |-> 0]
    /\ kept = [t \in Callers |-> <<>>]
    /\ wake = [t \in Callers |-> 0]
    /\ stamp = [t \in Callers |-> 0]
    /\ calls = [t \in Callers |-> 0]
    /\ slow = 0
    /\ arrivals = <<>>
    /\ served = <<>>
    /\ req = NoRequest
    /\ entered = 0
    /\ url = <<>>
    /\ fetches = 0
    /\ fetched_at = 0
    /\ response = NoResponse
    /\ page = <<>>
    /\ extraction = "none"
    /\ flights = <<>>
    /\ log = <<>>
    /\ result = NoResult
    /\ markup = NoMarkup
    /\ located = NotLocated

\* ------------------------------------------ one caller, call after call
InitPacing == InitWith(0)

NextPacing ==
    \/ \E t \in Sequential :
        \/ Call(t, MaxCalls)
        \/ ReadClock(t)
        \/ PruneRead(t)
        \/ PruneStore(t)
        \/ CheckQuota(t)
        \/ QuotaSleep(t)
        \/ WakeQuota(t)
        \/ Jitter(t)
        \/ WakeJitter(t)
        \/ Stamp(t)
        \/ AppendStamp(t)
        \/ Return(t)
    \/ Advance
    \/ Pause

SpecPacing == InitPacing /\ [][NextPacing]_vars

\* The entries of `ts` inside the trailing window that ends at time `t`.
InWindow(ts, t) == Cardinality({i \in 1..Len(ts) : ts[i] <= t /\ t - ts[i] < WINDOW})

\* No trailing window, ending at an entry or now, holds more than the ceiling.
WindowBound(ts) ==
    \A t \in {ts[i] : i \in 1..Len(ts)} \cup {now} :
        InWindow(ts, t) <= MAX_REQUESTS_PER_HOUR

\* C1: when one caller calls enforce_rate_limit() call after call, the
\* timestamps in request_timestamps never hold more than MAX_REQUESTS_PER_HOUR
\* entries inside any trailing 3600-second window.
C1_SequentialWindowBound == WindowBound(request_timestamps)

\* A call found the quota full, slept it off and appended: the list then holds
\* MAX_REQUESTS_PER_HOUR + 1 entries, the oldest outside the newest's window.
C1_Witness ==
    /\ pc[1] = "erl_return"
    /\ Len(request_timestamps) = MAX_REQUESTS_PER_HOUR + 1
    /\ InWindow(request_timestamps, now) = MAX_REQUESTS_PER_HOUR

\* ------------------------------------- request threads running side by side
\* Each request thread of the server calls enforce_rate_limit() once; the
\* process has served none, MAX_REQUESTS_PER_HOUR - 1 or MAX_REQUESTS_PER_HOUR
\* back-to-back requests before.
InitConc ==
    \E n \in {0, MAX_REQUESTS_PER_HOUR - 1, MAX_REQUESTS_PER_HOUR} : InitWith(n)

NextConc ==
    \/ \E t \in Callers :
        \/ Call(t, 1)
        \/ ReadClock(t)
        \/ PruneRead(t)
        \/ PruneStore(t)
        \/ CheckQuota(t)
        \/ QuotaSleep(t)
        \/ WakeQuota(t)
        \/ Jitter(t)
        \/ WakeJitter(t)
        \/ Stamp(t)
        \/ AppendStamp(t)
    \/ Advance

SpecConc == InitConc /\ [][NextConc]_vars

\* How often the value v occurs in the sequence ts.
Count(ts, v) == Cardinality({i \in 1..Len(ts) : ts[i] = v})

\* Every timestamp appended less than a window ago is still in the list.
NoLostTimestamp ==
    \A i \in 1..Len(recorded) :
        now - recorded[i] < WINDOW =>
            Count(request_timestamps, recorded[i]) >= Count(recorded, recorded[i])

\* C2: when searches interleave inside enforce_rate_limit(), no recorded
\* timestamp is lost and no trailing 3600-second window holds more than
\* MAX_REQUESTS_PER_HOUR recorded attempts.
C2_CriticalSection == NoLostTimestamp /\ WindowBound(recorded)

\* C2, its second half alone: the attempts recorded inside any trailing window
\* stay within the ceiling.
C2_ConcurrentWindowBound == WindowBound(recorded)

\* C3: callers are served in arrival order: the callers whose timestamps were
\* appended so far are, in that order, the first to have entered.
C3_ArrivalOrder == \A i \in 1..Len(served) : served[i] = arrivals[i]

\* No call of enforce_rate_limit() ends in an exception.
PacingNeverRaises == \A t \in Callers : pc[t] # "raised"

\* --------------------------------------------------------- build_search_url
\* urllib.parse.quote_plus on a str of space-separated tokens: the spaces
\* become "+".
QuotePlus(tokens) ==
    [i \in 1..(2 * Len(tokens) - 1) |->
        IF i % 2 = 1 THEN tokens[(i + 1) \div 2] ELSE "+"]

\* What an f-string makes of a value: a str as it is, None as "None".
Format(v) == IF v.isNone THEN <<"None">> ELSE v.text

\* app.py:126-134: the query text, as its tokens.
QueryString(r) ==
    <<"flights", "from">> \o Format(r.origin) \o <<"to">> \o Format(r.destination)
        \o <<"on">> \o Format(r.date)
        \o (IF r.adults.val > 1
              THEN <<"for", ToString(r.adults.val), "adults">> ELSE <<>>)
        \o (IF Truthy(r.return_date)
              THEN <<"returning", "on">> \o r.return_date.text ELSE <<>>)

\* app.py:80-143. quote_plus(origin) and quote_plus(destination) (app.py:97)
\* raise TypeError for a value that is no str, and adults > 1 (app.py:127)
\* raises TypeError for an adults that is no number.
build_search_url(r) ==
    IF r.origin.isNone \/ r.destination.isNone \/ r.adults.type # "int"
      THEN [raised |-> TRUE, url |-> <<>>]
      ELSE [raised |-> FALSE,
            url |-> <<"https://www.google.com/travel/flights/search?", "hl=en", "&",
                      "q=">> \o QuotePlus(QueryString(r))]

\* The arguments a caller of scrape_flights may pass: two well-formed
\* requests, one with no origin, one with adults given as text.
Requests ==
    LET plain == [origin |-> Str(<<"JFK">>), destination |-> Str(<<"LAX">>),
                  date |-> Str(<<"2025-03-01">>), return_date |-> None,
                  adults |-> PyInt(1)]
    IN  { plain,
          [plain EXCEPT !.date = Str(<<"03/01/2025">>),
                        !.return_date = Str(<<"2025-03-08">>),
                        !.adults = PyInt(2)],
          [plain EXCEPT !.origin = None],
          [plain EXCEPT !.adults = PyStr(2)] }

\* ------------------------------------------------------ extract_flight_data
\* One div[role="listitem"] container, as what the field extraction of
\* app.py:176-271 leaves in each variable: None, "" or a text; or the
\* extraction raising inside the try.
BlockShapes ==
    [fault : {FALSE}, price : {"none", "text"}, airline : {"none", "empty", "text"},
     departure_time : {"none", "text"}, arrival_time : {"none", "text"},
     duration : {"none", "text"}]
    \cup
    [fault : {TRUE}, price : {"none"}, airline : {"none"}, departure_time : {"none"},
     arrival_time : {"none"}, duration : {"none"}]

\* The value of a field of the container at position i: its text carries i.
FieldValue(shape, label, i) ==
    IF shape = "none" THEN None
    ELSE IF shape = "empty" THEN Str(<<>>)
    ELSE Str(<<label, i>>)

\* The container of shape k at position i of the page; stops is always set
\* (app.py:253).
BlockAt(k, i) ==
    [fault |-> k.fault,
     price |-> FieldValue(k.price, "$", i),
     airline |-> FieldValue(k.airline, "airline", i),
     departure_time |-> FieldValue(k.departure_time, "dep", i),
     arrival_time |-> FieldValue(k.arrival_time, "arr", i),
     duration |-> FieldValue(k.duration, "dur", i),
     stops |-> Str(<<"Nonstop">>)]

\* The page whose containers have the shapes ks, in that order.
PageOf(ks) == [i \in 1..Len(ks) |-> BlockAt(ks[i], i)]

\* The completeness test with price left out.
CompleteWithoutPrice(b) ==
    /\ Truthy(b.airline)
    /\ Truthy(b.departure_time)
    /\ Truthy(b.arrival_time)
    /\ Truthy(b.duration)
\* app.py:274: if price and airline and departure_time and arrival_time and duration
Complete(b) ==
    /\ Truthy(b.price)
    /\ Truthy(b.airline)
    /\ Truthy(b.departure_time)
    /\ Truthy(b.arrival_time)
    /\ Truthy(b.duration)

\* app.py:275-282: the record of one flight.
FlightData(b) ==
    [airline |-> b.airline, departure_time |-> b.departure_time,
     arrival_time |-> b.arrival_time, duration |-> b.duration,
     stops |-> b.stops, price |-> b.price]

LogEntry(level, event, n) == [level |-> level, event |-> event, n |-> n]

\* The loop as it would be with the first fault ending it.
ExtractPassAborting(containers, n) ==
    LET faults == {i \in 1..n : containers[i].fault}
        last == IF faults = {} THEN n
                ELSE (CHOOSE i \in faults : \A j \in faults : i <= j) - 1
        done == SelectSeq(SubSeq(containers, 1, last), Complete)
    IN  [flights |-> [i \in 1..Len(done) |-> FlightData(done[i])],
         log |-> [i \in 1..last |-> LogEntry("info", "container", i - 1)]]

\* app.py:174-290: the loop over the containers, after its first n rounds. A
\* round that raises is logged and the loop continues (app.py:288-290).
RECURSIVE ExtractPass(_, _)
ExtractPass(containers, n) ==
    IF n = 0
      THEN [flights |-> <<>>, log |-> <<>>]
      ELSE LET before == ExtractPass(containers, n - 1)
               b == containers[n]
           IN  IF b.fault
                 THEN [flights |-> before.flights,
                       log |-> Append(before.log, LogEntry("error", "extract_error", n - 1))]
                 ELSE IF Complete(b)
                   THEN [flights |-> Append(before.flights, FlightData(b)),
                         log |-> Append(before.log, LogEntry("info", "extracted", n - 1))]
                   ELSE [flights |-> before.flights,
                         log |-> Append(before.log, LogEntry("warning", "incomplete", n - 1))]

\* app.py:145-294: extract_flight_data on the containers of a page.
extract_flight_data(containers) ==
    LET head == (IF containers = <<>>
                   THEN <<LogEntry("info", "no_primary_containers", 0)>> ELSE <<>>)
                \o <<LogEntry("info", "found_containers", Len(containers))>>
        pass == ExtractPass(containers, Len(containers))
        tail == IF pass.flights = <<>>
                  THEN <<LogEntry("warning", "no_flights_extracted", 0)>> ELSE <<>>
    IN  [flights |-> pass.flights, log |-> head \o pass.log \o tail]

\* ----------------------------------------------------------- scrape_flights
\* What requests.get may produce: a response with a status code, a
\* requests.exceptions.RequestException, or any other exception.
StatusCodes == {200, 201, 204, 304, 404, 429, 500}
FetchOutcomes ==
    {[kind |-> "response", status |-> c] : c \in StatusCodes}
    \cup {[kind |-> "RequestException", status |-> 0],
          [kind |-> "Exception", status |-> 0]}

\* The status test as code < 400, and as its own negation.
StatusOkBelow400(code) == code < 400
StatusOkInverted(code) == code # 200
\* app.py:315: the fetch counts as successful when status_code is 200.
StatusOk(code) == code = 200

\* app.py:320, 343, 346: the {"error": ...} result.
Failure(reason, code) == [kind |-> "error", reason |-> reason, code |-> code]

\* The envelope with an empty list turned into an error result.
SuccessUnlessEmpty(r, fl, at) ==
    IF fl = <<>> THEN Failure("unexpected", 0)
    ELSE [kind |-> "success", origin |-> r.origin, destination |-> r.destination,
          date |-> r.date, return_date |-> r.return_date, flights |-> fl,
          timestamp |-> at, results_count |-> Len(fl)]
\* app.py:331-339: the success envelope.
Success(r, fl, at) ==
    [kind |-> "success", origin |-> r.origin, destination |-> r.destination,
     date |-> r.date, return_date |-> r.return_date, flights |-> fl,
     timestamp |-> at, results_count |-> Len(fl)]

\* app.py:296-303: scrape_flights is entered and calls enforce_rate_limit().
Enter(t) ==
    /\ pc[t] = "idle"
    /\ calls[t] = 0
    /\ \E r \in Requests : req' = r
    /\ entered' = now
    /\ pc' = [pc EXCEPT ![t] = "erl_clock"]
    /\ calls' = [calls EXCEPT ![t] = @ + 1]
    /\ arrivals' = Append(arrivals, t)
    /\ UNCHANGED <<now, request_timestamps, current_time, kept, wake, stamp,
                   slow, served, recorded, url, fetches, fetched_at, response,
                   page, extraction, flights, log, result>>
    /\ UNCHANGED locateVars

\* app.py:306: build_search_url, outside the try: what it raises leaves
\* scrape_flights as an exception.
BuildUrl(t) ==
    /\ pc[t] = "erl_return"
    /\ LET built == build_search_url(req)
       IN  /\ url' = built.url
           /\ pc' = [pc EXCEPT ![t] = IF built.raised THEN "raised" ELSE "fetching"]
    /\ UNCHANGED <<now, request_timestamps, current_time, kept, wake, stamp,
                   calls, slow, arrivals, served, recorded, req, entered,
                   fetches, fetched_at, response, page, extraction, flights,
                   log, result>>
    /\ UNCHANGED locateVars

\* app.py:310-312: the one requests.get of the search.
Fetch(t) ==
    /\ pc[t] = "fetching"
    /\ \E o \in FetchOutcomes : response' = o
    /\ fetches' = fetches + 1
    /\ fetched_at' = now
    /\ pc' = [pc EXCEPT ![t] = "fetched"]
    /\ UNCHANGED <<now, request_timestamps, current_time, kept, wake, stamp,
                   calls, slow, arrivals, served, recorded, req, entered, url,
                   page, extraction, flights, log, result>>
    /\ UNCHANGED locateVars

\* app.py:315-320 and 341-346: an exception of the fetch or a status the
\* check rejects ends the search with an error result; otherwise the body
\* goes to extraction.
HandleFetch(t) ==
    /\ pc[t] = "fetched"
    /\ IF response.kind = "RequestException"
         THEN /\ result' = Failure("request", 0)
              /\ pc' = [pc EXCEPT ![t] = "failed"]
         ELSE IF response.kind = "Exception"
           THEN /\ result' = Failure("unexpected", 0)
                /\ pc' = [pc EXCEPT ![t] = "failed"]
           ELSE IF ~StatusOk(response.status)
             THEN /\ result' = Failure("status", response.status)
                  /\ pc' = [pc EXCEPT ![t] = "failed"]
             ELSE /\ result' = result
                  /\ pc' = [pc EXCEPT ![t] = "extracting"]
    /\ UNCHANGED <<now, request_timestamps, current_time, kept, wake, stamp,
                   calls, slow, arrivals, served, recorded, req, entered, url,
                   fetches, fetched_at, response, page, extraction, flights, log>>
    /\ UNCHANGED locateVars

\* app.py:328-339: extract_flight_data(response.text) returns and the success
\* envelope is built.
Extract(t) ==
    /\ pc[t] = "extracting"
    /\ \E n \in 0..MaxBlocks : \E ks \in [1..n -> BlockShapes] :
        LET containers == PageOf(ks)
            out == extract_flight_data(containers)
        IN  /\ page' = containers
            /\ flights' = out.flights
            /\ log' = out.log
            /\ result' = Success(req, out.flights, now)
    /\ extraction' = "returned"
    /\ pc' = [pc EXCEPT ![t] = "done"]
    /\ UNCHANGED <<now, request_timestamps, current_time, kept, wake, stamp,
                   calls, slow, arrivals, served, recorded, req, entered, url,
                   fetches, fetched_at, response>>
    /\ UNCHANGED locateVars

\* app.py:344-346: extract_flight_data raises (the parser on the body, outside
\* the per-container try) and the catch-all turns it into an error result.
ExtractFault(t) ==
    /\ pc[t] = "extracting"
    /\ extraction' = "raised"
    /\ result' = Failure("unexpected", 0)
    /\ pc' = [pc EXCEPT ![t] = "failed"]
    /\ UNCHANGED <<now, request_timestamps, current_time, kept, wake, stamp,
                   calls, slow, arrivals, served, recorded, req, entered, url,
                   fetches, fetched_at, response, page, flights, log>>
    /\ UNCHANGED locateVars

\* --------------------------------------------------- one search, start to end
\* One search by one caller, in a process that has served none or
\* MAX_REQUESTS_PER_HOUR back-to-back searches before.
Init == \E n \in {0, MAX_REQUESTS_PER_HOUR} : InitWith(n)

Next ==
    \/ \E t \in Sequential :
        \/ Enter(t)
        \/ ReadClock(t)
        \/ PruneRead(t)
        \/ PruneStore(t)
        \/ CheckQuota(t)
        \/ QuotaSleep(t)
        \/ WakeQuota(t)
        \/ Jitter(t)
        \/ WakeJitter(t)
        \/ Stamp(t)
        \/ AppendStamp(t)
        \/ BuildUrl(t)
        \/ Fetch(t)
        \/ HandleFetch(t)
        \/ Extract(t)
        \/ ExtractFault(t)
    \/ Advance

Spec == Init /\ [][Next]_vars

\* The search has returned a result to its caller.
Finished(t) == pc[t] \in {"done", "failed"}

\* C4: a search issues its fetch only after enforce_rate_limit() has recorded
\* its timestamp, and at least MIN_WAIT_TIME seconds after the search was
\* entered, whether or not the hourly quota was exhausted.
C4_PacedBeforeFetch ==
    \A t \in Sequential :
        (pc[t] \in {"fetching", "fetched", "extracting", "done", "failed"} \/ fetches > 0) =>
            /\ served = <<t>>
            /\ recorded[Len(recorded)] = stamp[t]
            /\ stamp[t] - entered >= MIN_WAIT_TIME
            /\ fetches > 0 =>
                /\ fetched_at >= stamp[t]
                /\ fetched_at - entered >= MIN_WAIT_TIME

\* A fetch issued exactly MIN_WAIT_TIME after entry, the quota not exhausted.
C4_Witness ==
    /\ fetches = 1
    /\ fetched_at - entered = MIN_WAIT_TIME
    /\ Len(request_timestamps) < MAX_REQUESTS_PER_HOUR

\* The fetch failed: a transport-level exception, or a status outside 200..299.
FetchFailed ==
    \/ response.kind = "RequestException"
    \/ response.kind = "response" /\ response.status \notin 200..299

\* C5: a fetch that returns a non-2xx status or fails at transport level ends
\* the search with an error result carrying the status code or the transport
\* failure, without extraction; a search that returns has issued exactly one
\* fetch and none ever issues a second.
C5_FailedFetchNoRetry ==
    /\ fetches <= 1
    /\ \A t \in Sequential :
        Finished(t) =>
            /\ fetches = 1
            /\ FetchFailed =>
                /\ pc[t] = "failed"
                /\ extraction = "none"
                /\ result.kind = "error"
                /\ response.kind = "response" =>
                    result.reason = "status" /\ result.code = response.status
                /\ response.kind = "RequestException" => result.reason = "request"

\* A search whose fetch returned 429 has ended with that status as its error.
C5_Witness ==
    /\ pc[1] = "failed"
    /\ fetches = 1
    /\ response = [kind |-> "response", status |-> 429]
    /\ result = Failure("status", 429)

C7_AlwaysAnOutcome ==
    \A t \in Sequential :
        /\ pc[t] # "raised"
        /\ Finished(t) => result.kind \in {"success", "error"}

\* All five essential fields of a container or a record are truthy.
HasAllFive(b) ==
    /\ Truthy(b.price)
    /\ Truthy(b.airline)
    /\ Truthy(b.departure_time)
    /\ Truthy(b.arrival_time)
    /\ Truthy(b.duration)

\* Some essential field of the container was not found.
MissesAField(b) ==
    \/ b.price.isNone
    \/ b.airline.isNone
    \/ b.departure_time.isNone
    \/ b.arrival_time.isNone
    \/ b.duration.isNone

\* C8: every record extract_flight_data returns has airline, departure time,
\* arrival time, duration and price; a container missing any of them has no
\* record in the list; results_count is the number of records returned.
C8_CompletenessPolicy ==
    extraction = "returned" =>
        /\ \A j \in 1..Len(flights) :
            /\ ~MissesAField(flights[j])
            /\ \E i \in 1..Len(page) :
                ~page[i].fault /\ flights[j] = FlightData(page[i])
        /\ \A i \in 1..Len(page) :
            (~page[i].fault /\ MissesAField(page[i])) =>
                \A j \in 1..Len(flights) : flights[j] # FlightData(page[i])
        /\ result.kind = "success"
        /\ result.flights = flights
        /\ result.results_count = Len(flights)

\* A page of a complete container and one missing its price only: one record.
C8_Witness ==
    /\ extraction = "returned"
    /\ Len(page) = 2
    /\ HasAllFive(page[1])
    /\ page[2].price.isNone
    /\ HasAllFive([page[2] EXCEPT !.price = Str(<<"$", 2>>)])
    /\ flights = <<FlightData(page[1])>>
    /\ result.results_count = 1

\* C9: a container that is incomplete or whose extraction raises does not end
\* the pass: every container of the page is processed, and the records
\* returned are those of the complete containers, in page order.
C9_PassNeverAborts ==
    extraction = "returned" =>
        LET good == SelectSeq(page, LAMBDA b : ~b.fault /\ HasAllFive(b))
        IN  /\ Len(flights) = Len(good)
            /\ \A i \in 1..Len(good) : flights[i] = FlightData(good[i])
            /\ \A i \in 1..Len(page) :
                \E j \in 1..Len(log) :
                    /\ log[j].n = i - 1
                    /\ log[j].event \in {"extracted", "incomplete", "extract_error"}

\* A page whose first container raises and whose second is complete: the
\* second's record is returned.
C9_Witness ==
    /\ extraction = "returned"
    /\ Len(page) = 2
    /\ page[1].fault
    /\ ~page[2].fault /\ HasAllFive(page[2])
    /\ flights = <<FlightData(page[2])>>

\* C10: a page fetched with status 200 that has no container, or none that is
\* complete, ends the search done: the success envelope with an empty flights
\* list and results_count 0, and a warning in the log; never an error result.
C10_StructuralMissIsDone ==
    \A t \in Sequential :
        ( /\ extraction = "returned"
          /\ \A i \in 1..Len(page) : page[i].fault \/ ~HasAllFive(page[i]) ) =>
            /\ pc[t] = "done"
            /\ result.kind = "success"
            /\ result.flights = <<>>
            /\ result.results_count = 0
            /\ \E j \in 1..Len(log) :
                log[j].level = "warning" /\ log[j].event = "no_flights_extracted"

\* A page with no container at all has ended the search done, with a warning.
C10_Witness ==
    /\ pc[1] = "done"
    /\ response.status = 200
    /\ extraction = "returned"
    /\ page = <<>>
    /\ result.kind = "success"
    /\ result.flights = <<>>

\* The other structural miss: containers, and none of them complete.
C10_WitnessIncomplete ==
    /\ pc[1] = "done"
    /\ extraction = "returned"
    /\ Len(page) = MaxBlocks
    /\ result.kind = "success"
    /\ result.flights = <<>>

\* ------------------------------------- extract_flight_data, field by field
\* One container as the selectors and patterns of app.py:179-271 see it:
\*   price_label    the first element with "$" in its aria-label: none, one the
\*                  price pattern does not match, one it matches
\*   airline_el     the first airline element: none, with empty text, with text
\*   logo_alt       the first img with "logo" in its alt: none, an alt without
\*                  "airline", an alt with it
\*   seg_dep/arr    the departure and arrival span of the first segment
\*   span_times     how many spans of the container hold a time: 0, 1, 2 or more
\*   duration_el    the first element with "Duration" in its aria-label
\*   duration_text  whether some text node holds a duration such as "2h 5m"
\*   stops_el       the first element with "stop" in its aria-label, by its text
\*   stops_text     the first text node that says "nonstop" or "stop" with a digit
Markups ==
    [price_label : {"absent", "nomatch", "match"},
     airline_el : {"absent", "empty", "text"},
     logo_alt : {"absent", "other", "airline"},
     seg_dep : {"absent", "empty", "text"},
     seg_arr : {"absent", "empty", "text"},
     span_times : {"none", "one", "two"},
     duration_el : {"absent", "empty", "text"},
     duration_text : {"absent", "match"},
     stops_el : {"absent", "nonstop", "one", "many", "other"},
     stops_text : {"absent", "nonstop", "digits"}]

\* element.text.strip() of an element that may be missing: None when it is.
ElementText(shape, label) ==
    IF shape = "absent" THEN None
    ELSE IF shape = "empty" THEN Str(<<>>)
    ELSE Str(<<label, "element">>)

\* app.py:179-185: the price pattern on the aria-label of the price element.
PriceByLabel(m) ==
    IF m.price_label = "match" THEN Str(<<"$", "label">>) ELSE None

\* app.py:189-192: the text of the airline element.
AirlineByElement(m) == ElementText(m.airline_el, "airline")

\* app.py:196-198: the alt text of the logo image, when it names an airline.
AirlineByLogo(m) ==
    IF m.logo_alt = "airline" THEN Str(<<"airline", "logo">>) ELSE None

\* app.py:212-223: the departure and arrival span of the first segment.
DepartureBySegment(m) == ElementText(m.seg_dep, "dep")
ArrivalBySegment(m) == ElementText(m.seg_arr, "arr")

\* app.py:227-235: the first and second span that hold a time, when there are
\* at least two.
DepartureBySpans(m) ==
    IF m.span_times = "two" THEN Str(<<"dep", "span">>) ELSE None
ArrivalBySpans(m) ==
    IF m.span_times = "two" THEN Str(<<"arr", "span">>) ELSE None

\* app.py:239-242: the text of the duration element.
DurationByElement(m) == ElementText(m.duration_el, "dur")

\* app.py:245-249: the first text node that holds a duration.
DurationByTextNodes(m) ==
    IF m.duration_text = "match" THEN Str(<<"dur", "text">>) ELSE None

\* app.py:255-261: the stop count read off the text of the stops element.
StopsByElement(m) ==
    IF m.stops_el = "nonstop" THEN Str(<<"Nonstop">>)
    ELSE IF m.stops_el = "one" THEN Str(<<"1 stop">>)
    ELSE IF m.stops_el = "many" THEN Str(<<"N stops">>)
    ELSE None

\* app.py:263-271: the stop count read off the text nodes.
StopsByTextNodes(m) ==
    IF m.stops_text = "nonstop" THEN Str(<<"Nonstop">>)
    ELSE IF m.stops_text = "digits" THEN Str(<<"stops", "text">>)
    ELSE None

\* app.py:179-185
LocatePrice(m) ==
    IF m.price_label # "absent" THEN PriceByLabel(m) ELSE None

\* app.py:189-198: the logo is looked at only inside `if airline_element:`,
\* when the element's text is empty.
LocateAirline(m) ==
    IF m.airline_el # "absent"
      THEN LET airline == AirlineByElement(m)
           IN  IF ~Truthy(airline) /\ Truthy(AirlineByLogo(m))
                 THEN AirlineByLogo(m) ELSE airline
      ELSE None

\* app.py:207-235: both times come from the segment; when either is missing
\* and two spans hold a time, both are set again from the spans.
LocateTimes(m) ==
    LET dep == DepartureBySegment(m)
        arr == ArrivalBySegment(m)
    IN  IF (~Truthy(dep) \/ ~Truthy(arr)) /\ m.span_times = "two"
          THEN [departure_time |-> DepartureBySpans(m),
                arrival_time |-> ArrivalBySpans(m)]
          ELSE [departure_time |-> dep, arrival_time |-> arr]

\* app.py:239-249: the text nodes are searched only when there is no duration
\* element.
LocateDuration(m) ==
    IF m.duration_el # "absent" THEN DurationByElement(m)
    ELSE DurationByTextNodes(m)

\* app.py:252-271: "Nonstop" by default; the text nodes are searched only when
\* there is no stops element.
LocateStops(m) ==
    LET default == Str(<<"Nonstop">>)
    IN  IF m.stops_el # "absent"
          THEN IF Truthy(StopsByElement(m)) THEN StopsByElement(m) ELSE default
          ELSE IF Truthy(StopsByTextNodes(m)) THEN StopsByTextNodes(m) ELSE default

\* app.py:176-271: the six fields of one container.
LocateAll(m) ==
    [fault |-> FALSE, price |-> LocatePrice(m), airline |-> LocateAirline(m),
     departure_time |-> LocateTimes(m).departure_time,
     arrival_time |-> LocateTimes(m).arrival_time,
     duration |-> LocateDuration(m), stops |-> LocateStops(m)]

\* app.py:174: the loop takes a container.
SelectContainer ==
    /\ markup = NoMarkup
    /\ markup' \in Markups
    /\ UNCHANGED <<paceVars, searchVars, located>>

\* app.py:176-271: the fields of the container are looked for.
LocateFields ==
    /\ markup # NoMarkup
    /\ located = NotLocated
    /\ located' = LocateAll(markup)
    /\ UNCHANGED <<paceVars, searchVars, markup>>

InitLocate == InitWith(0)

NextLocate == SelectContainer \/ LocateFields

SpecLocate == InitLocate /\ [][NextLocate]_vars

\* The strategies of each field, in their order.
PriceStrategies(m) == <<PriceByLabel(m)>>
AirlineStrategies(m) == <<AirlineByElement(m), AirlineByLogo(m)>>
DepartureStrategies(m) == <<DepartureBySegment(m), DepartureBySpans(m)>>
ArrivalStrategies(m) == <<ArrivalBySegment(m), ArrivalBySpans(m)>>
DurationStrategies(m) == <<DurationByElement(m), DurationByTextNodes(m)>>
StopsStrategies(m) == <<StopsByElement(m), StopsByTextNodes(m)>>

\* The value is that of the first strategy that matched; when none did, the
\* value is absent (None or ""), or the default where the field has one.
FollowsChain(value, strategies, default) ==
    LET matches == {i \in 1..Len(strategies) : Truthy(strategies[i])}
    IN  IF matches = {}
          THEN IF default.isNone THEN ~Truthy(value) ELSE value = default
          ELSE value = strategies[CHOOSE i \in matches : \A j \in matches : i <= j]

PriceFollowsChain ==
    located # NotLocated => FollowsChain(located.price, PriceStrategies(markup), None)
AirlineFollowsChain ==
    located # NotLocated => FollowsChain(located.airline, AirlineStrategies(markup), None)
DepartureFollowsChain ==
    located # NotLocated =>
        FollowsChain(located.departure_time, DepartureStrategies(markup), None)
ArrivalFollowsChain ==
    located # NotLocated =>
        FollowsChain(located.arrival_time, ArrivalStrategies(markup), None)
DurationFollowsChain ==
    located # NotLocated =>
        FollowsChain(located.duration, DurationStrategies(markup), None)
StopsFollowsChain ==
    located # NotLocated =>
        FollowsChain(located.stops, StopsStrategies(markup), Str(<<"Nonstop">>))

\* C11: each field of a container has the value of the first of its
\* strategies, in their fixed order, that matches; it is null (for stops, the
\* default "Nonstop") only if every strategy of the field returns absent.
C11_FirstMatchWins ==
    /\ PriceFollowsChain
    /\ AirlineFollowsChain
    /\ DepartureFollowsChain
    /\ ArrivalFollowsChain
    /\ DurationFollowsChain
    /\ StopsFollowsChain

====
